---- MODULE Spec2Model ----
(***************************************************************************)
(* Tool dispatch and session lifecycle of the Azure DevOps MCP server.     *)
(*                                                                         *)
(* The model follows the multi-client (HTTP/SSE) server class              *)
(* AzureDevOpsMCPServer of src/src/start-interactive.ts (lines 241-861).   *)
(* Node.js runs one handler at a time; a handler yields only at an await   *)
(* of a backend call.  Every action below is therefore one synchronous     *)
(* stretch of a handler: from its entry, or from the completion of the     *)
(* backend call it was suspended on, up to its next await or its response. *)
(***************************************************************************)
EXTENDS Integers, Sequences, FiniteSets, TLC

\* ---------------------------------------------------------------- bounds
MaxConnects == 2        \* calls of connectAzureDevOps in one behaviour
MaxInFlight == 1        \* tool invocations suspended on the backend at a time

\* ---------------------------------------------------------------- inputs
Absent     == "undefined"          \* a JavaScript undefined / missing field
Urls       == {"u1", "u2"}         \* organization URLs
Tokens     == {"t1", "t2"}         \* personal access tokens
GoodTokens == {"t1"}               \* tokens the backend accepts
Projects   == {"p1"}               \* default project names
NoArgs     == {"<no-object>"}      \* arguments that are undefined or not an object

\* The credentials that requests and the environment carry in this model:
\* two that the backend accepts and one whose token it rejects.
Creds == { [orgUrl |-> "u1", token |-> "t1"],
           [orgUrl |-> "u2", token |-> "t1"],
           [orgUrl |-> "u1", token |-> "t2"] }

\* The backend accepts the handshake and the operations of a connection
\* built from (orgUrl, token) exactly when the token is valid for the URL.
Accepts(c) == c.orgUrl \in Urls /\ c.token \in GoodTokens

VARIABLES
    started,         \* start() has run (the HTTP listener is up)
    connection,      \* this.connection: 0 (null) or the id of a WebApi object
    buildApi,        \* this.buildApi: 0 or the id of the WebApi it came from
    gitApi,          \* this.gitApi
    workItemApi,     \* this.workItemApi
    cursorSettings,  \* this.cursorSettings
    attempts,        \* one record per WebApi created by connectAzureDevOps
    invokes,         \* tool invocations suspended on a backend call
    last,            \* the response (if any) produced by the last step
    supplied         \* a credential has been supplied to the server

vars == <<started, connection, buildApi, gitApi, workItemApi,
          cursorSettings, attempts, invokes, last, supplied>>

session == <<connection, buildApi, gitApi, workItemApi>>

NoResp == [route |-> "none"]

\* private cursorSettings: CursorMCPSettings = {}
EmptySettings == [orgUrl |-> Absent, project |-> Absent, token |-> Absent]

InFlight(a) == a.pc \in {"build", "git", "wit"}

Init ==
    /\ started = FALSE
    /\ connection = 0
    /\ buildApi = 0
    /\ gitApi = 0
    /\ workItemApi = 0
    /\ cursorSettings = EmptySettings
    /\ attempts = << >>
    /\ invokes = {}
    /\ last = NoResp
    /\ supplied = FALSE

\* ------------------------------------------------------ the tool catalog
\* The names of the ListTools catalog, in catalog order.
ToolNames == << "connect_azure_devops", "list_projects",
                "list_build_definitions", "get_build", "list_repositories",
                "get_repository", "list_work_items", "get_work_item",
                "create_work_item" >>

\* The switch of executeTool with a case for one more name.
CatalogOpen == { ToolNames[i] : i \in 1..Len(ToolNames) } \cup {"no_such_tool"}

Catalog == { ToolNames[i] : i \in 1..Len(ToolNames) }

\* inputSchema.required of each catalog entry.
Required(tool) ==
    CASE tool = "connect_azure_devops"   -> {"orgUrl", "token"}
      [] tool = "list_projects"          -> {}
      [] tool = "list_build_definitions" -> {"project"}
      [] tool = "get_build"              -> {"project", "buildId"}
      [] tool = "list_repositories"      -> {"project"}
      [] tool = "get_repository"         -> {"project", "repositoryId"}
      [] tool = "list_work_items"        -> {"project", "query"}
      [] tool = "get_work_item"          -> {"workItemId"}
      [] tool = "create_work_item"       -> {"project", "workItemType", "title"}
      [] OTHER                           -> {}

SessionTools == Catalog \ {"connect_azure_devops"}

\* The tools whose case in executeTool starts with
\*   if (!args || typeof args !== 'object') throw ...
ChecksArgsObject(tool) == tool \in Catalog \ {"list_projects"}

\* The required parameters that an argument object leaves out.
Missing(tool, args) == Required(tool) \ args

\* Every handler kept on the session that was set up first.
HandleOfFirstSession(tool) == IF Len(attempts) > 0 THEN 1 ELSE 0

\* The field each handler tests and then calls.
Handle(tool) ==
    CASE tool = "list_projects" -> connection
      [] tool \in {"list_build_definitions", "get_build"} -> buildApi
      [] tool \in {"list_repositories", "get_repository"} -> gitApi
      [] OTHER -> workItemApi

\* The handle test left out.
HasHandleNoTest(tool) == TRUE

\* if (!this.<field>) throw new Error("Not connected to Azure DevOps. ...")
HasHandle(tool) == Handle(tool) # 0

\* The first backend call of each handler.
FirstOp(tool) ==
    CASE tool = "list_projects"   -> "getCoreApi"
      [] tool = "list_work_items" -> "queryByWiql"
      [] OTHER                    -> "call"

\* The argument objects tried for a tool: a key set, or NoArgs.  The last
\* two kinds leave out every, or exactly one, required parameter.
ArgChoices(tool) ==
    {NoArgs, Required(tool), Required(tool) \cup {"extra"}, {}}
      \cup { Required(tool) \ {k} : k \in Required(tool) }
      \cup (IF tool = "create_work_item"
              THEN {Required(tool) \cup {"description"}} ELSE {})

\* The outcomes that are answered as a result: "ok" is a rendered result,
\* "NoResults" the sentence listWorkItems returns for an empty query result,
\* "BareHeader" the heading of a list followed by no entry, "EmptyList" an
\* empty array.
IsError(kind) == kind \notin {"ok", "NoResults", "BareHeader", "EmptyList"}

\* What a transport makes of the outcome of executeTool.  phase tells how
\* the step relates to the invocation: "immediate" answers it before any
\* await, "suspended" leaves it waiting on its first backend call, and
\* "resumed" answers it after a backend call has completed.  The protocol
\* handler returns the result, or in its catch a text content without an
\* error flag; POST /tools/:toolName sends the result, or in its catch
\* status 500 with { error, details }.  caught tells that executeTool
\* rejected and the catch block of the transport built the answer.
ToolEvent(transport, tool, args, phase, kind, ops) ==
    [route |-> "tool", transport |-> transport, tool |-> tool, args |-> args,
     phase |-> phase, kind |-> kind, ops |-> ops,
     names |-> {}, caught |-> IsError(kind),
     status |-> IF transport = "mcp" THEN 0
                ELSE IF IsError(kind) THEN 500 ELSE 200,
     shape |-> IF transport = "http" /\ IsError(kind)
                 THEN "error-details" ELSE "content",
     isError |-> FALSE]

\* ------------------------------------------------- connectAzureDevOps
\* The synchronous head of connectAzureDevOps: the WebApi is created and
\* stored in this.connection at once, then getBuildApi() is issued on it
\* and the caller is suspended.  source keeps where the credential came
\* from: the environment variables read by start(), the configuration of
\* the configured server, or a request.
connectAzureDevOps(url, tok, caller) ==
    /\ Len(attempts) < MaxConnects
    /\ attempts' = Append(attempts,
                     [orgUrl |-> url, token |-> tok, caller |-> caller,
                      source |-> CASE caller = "startup" -> "env"
                                   [] caller = "initialize" -> "config"
                                   [] OTHER -> "request",
                      pc |-> "build", on |-> Len(attempts) + 1])
    /\ connection' = Len(attempts) + 1
    /\ UNCHANGED <<buildApi, gitApi, workItemApi>>

\* The keys of the JSON body of an HTTP response to a credential update.
BodyFields(route, status) ==
    CASE status = 400 -> {"error"}
      [] status = 500 -> {"error", "details"}
      [] route = "POST /cursor-settings" -> {"success", "message", "settings"}
      [] OTHER -> {"success", "message"}

\* The settings echoed with the token as it was received.
EchoedTokenAsReceived(tok) == tok

\* settings: { orgUrl, project, token: '***' }
EchoedToken(tok) == "***"

\* What the caller of connectAzureDevOps answers once the call settles.  Of
\* the settings echoed by POST /cursor-settings the model keeps orgUrl and
\* token.  The details of a 500 answer are the message of the error thrown
\* by connectAzureDevOps, which wraps the message of the client library.
ConnectResponse(caller, url, tok, phase, ok) ==
    CASE caller = "auth" ->
           [route |-> "POST /auth", status |-> IF ok THEN 200 ELSE 500,
            kind |-> IF ok THEN "ok" ELSE "ConnectFailed",
            fields |-> BodyFields("POST /auth", IF ok THEN 200 ELSE 500)]
      [] caller = "cursor-settings" ->
           [route |-> "POST /cursor-settings", status |-> IF ok THEN 200 ELSE 500,
            kind |-> IF ok THEN "ok" ELSE "ConnectFailed",
            fields |-> BodyFields("POST /cursor-settings",
                                  IF ok THEN 200 ELSE 500),
            settings |-> IF ok THEN [orgUrl |-> url, token |-> EchoedToken(tok)]
                         ELSE [orgUrl |-> Absent, token |-> Absent]]
      [] caller \in {"mcp", "http"} ->
           ToolEvent(caller, "connect_azure_devops",
                     {"orgUrl" : x \in {url} \ {Absent}}
                       \cup {"token" : x \in {tok} \ {Absent}},
                     phase, IF ok THEN "ok" ELSE "ConnectFailed", {})
      [] OTHER -> NoResp

\* process.env.AZURE_DEVOPS_ORG_URL and AZURE_DEVOPS_TOKEN as start() may
\* find them: both set, or at least one of them unset.
EnvChoices == Creds \cup { [orgUrl |-> Absent, token |-> Absent],
                           [orgUrl |-> "u1", token |-> Absent] }

\* start(): listen, then auto-connect from the environment variables.
Start ==
    /\ ~started
    /\ started' = TRUE
    /\ \E env \in EnvChoices :
         IF env.orgUrl # Absent /\ env.token # Absent
           THEN /\ connectAzureDevOps(env.orgUrl, env.token, "startup")
                /\ supplied' = TRUE
           ELSE UNCHANGED <<session, attempts, supplied>>
    /\ last' = NoResp
    /\ UNCHANGED <<cursorSettings, invokes>>

\* start() without the try/catch around its auto-connect.
StartupFailureRethrown == FALSE

\* start() awaits its auto-connect inside a try/catch of its own that logs
\* the failure.  Without it the failure would reach the outer catch of
\* start(), which rethrows, and main() would exit the process.
StartupFailureCaught == TRUE

\* A connectAzureDevOps call resumes from the await it is suspended on.
\* On success the result is stored in the field of the step and the next
\* client is requested from whatever this.connection holds at that moment;
\* on failure the catch rethrows and the caller answers.
connectStep(i, ok) ==
    LET a == attempts[i] IN
    /\ IF ~ok
         THEN /\ attempts' = [attempts EXCEPT ![i].pc = "failed", ![i].on = 0,
                                              ![i].caller = "settled"]
              /\ last' = ConnectResponse(a.caller, a.orgUrl, a.token, "resumed", FALSE)
              /\ started' = IF a.caller = "startup" /\ ~StartupFailureCaught
                              THEN FALSE ELSE started
              /\ UNCHANGED session
         ELSE /\ UNCHANGED started
              /\ buildApi' = IF a.pc = "build" THEN a.on ELSE buildApi
              /\ gitApi' = IF a.pc = "git" THEN a.on ELSE gitApi
              /\ workItemApi' = IF a.pc = "wit" THEN a.on ELSE workItemApi
              /\ UNCHANGED connection
              /\ attempts' = [attempts EXCEPT
                   ![i].pc = CASE a.pc = "build" -> "git"
                               [] a.pc = "git" -> "wit"
                               [] OTHER -> "ok",
                   ![i].on = IF a.pc = "wit" THEN 0 ELSE connection,
                   ![i].caller = IF a.pc = "wit" THEN "settled" ELSE a.caller]
              /\ last' = IF a.pc = "wit"
                           THEN ConnectResponse(a.caller, a.orgUrl, a.token,
                                                "resumed", TRUE)
                           ELSE NoResp
    /\ UNCHANGED <<cursorSettings, invokes, supplied>>

\* The backend answers the pending handshake call: it succeeds exactly when
\* the connection it was issued on carries an accepted credential.
ConnectResume ==
    \E i \in 1..Len(attempts) :
        /\ InFlight(attempts[i])
        /\ connectStep(i, Accepts(attempts[attempts[i].on]))

\* The pending handshake call fails for a reason other than the credential
\* (the network, the service).
ConnectFault ==
    \E i \in 1..Len(attempts) :
        /\ InFlight(attempts[i])
        /\ Accepts(attempts[attempts[i].on])
        /\ connectStep(i, FALSE)

Transports == {"mcp", "http"}

FreeIds == (1..MaxInFlight) \ { t.id : t \in invokes }

\* The argument test with unknown keys refused as well.
RejectsUnknownKeys(tool, args) ==
    ChecksArgsObject(tool) /\ (args = NoArgs \/ "extra" \in args)

\* if (!args || typeof args !== 'object') throw new Error("Invalid arguments ...")
RejectsArgs(tool, args) == ChecksArgsObject(tool) /\ args = NoArgs

\* executeTool for the tools other than connect_azure_devops, run up to its
\* first await: unknown name, argument-object test, handle test, then the
\* first backend call on the handle.  takeUp is what the step leaves for the
\* caller: the error thrown, or the invocation pending on its first call.
takeUp(transport, tool, args) ==
    LET throw(kind) == ToolEvent(transport, tool, args, "immediate", kind, {})
    IN
    IF tool \notin Catalog THEN throw("UnknownTool")
    ELSE IF RejectsArgs(tool, args) THEN throw("InvalidArguments")
    ELSE IF ~HasHandle(tool) THEN throw("NotConnected")
    ELSE IF Handle(tool) = 0 THEN throw("TypeError")
    ELSE ToolEvent(transport, tool, args, "suspended", "pending",
                   {Handle(tool)})

\* executeTool with a handshake from the stored settings ahead of each tool.
executeToolLazy(transport, tool, args) ==
    /\ connectAzureDevOps(cursorSettings.orgUrl, cursorSettings.token, transport)
    /\ last' = takeUp(transport, tool, args)
    /\ UNCHANGED <<started, cursorSettings, invokes, supplied>>

executeTool(transport, tool, args) ==
    LET e == takeUp(transport, tool, args) IN
    /\ last' = e
    /\ IF e.phase = "immediate"
         THEN UNCHANGED invokes
         ELSE /\ FreeIds # {}
              /\ invokes' = invokes \cup
                   {[id |-> CHOOSE i \in FreeIds : \A j \in FreeIds : i <= j,
                     transport |-> transport, tool |-> tool, args |-> args,
                     pc |-> FirstOp(tool), on |-> Handle(tool),
                     ops |-> {Handle(tool)}]}
    /\ UNCHANGED <<started, session, cursorSettings, attempts, supplied>>

ToolChoices == SessionTools \cup {"no_such_tool"}

\* The protocol's CallTool handler, for a tool other than connect.
CallTool ==
    /\ started
    /\ \E tool \in ToolChoices : \E args \in ArgChoices(tool) :
         executeTool("mcp", tool, args)

\* POST /tools/:toolName; express.json() leaves req.body an object.
PostTool ==
    /\ started
    /\ \E tool \in ToolChoices : \E args \in ArgChoices(tool) \ {NoArgs} :
         executeTool("http", tool, args)

\* POST /tools/:toolName called with the required parameters of the tool,
\* or with a name that is not a tool.
PostToolComplete ==
    /\ started
    /\ \E tool \in ToolChoices : executeTool("http", tool, Required(tool))

\* The protocol handler called by a client that follows the catalog: a
\* catalog tool with exactly its required parameters.
CallToolComplete ==
    /\ started
    /\ \E tool \in SessionTools : executeTool("mcp", tool, Required(tool))

\* ---------------------------------------------- credential-carrying calls
\* The bodies tried for POST /auth and the arguments of connect_azure_devops.
BodyChoices == Creds \cup { [orgUrl |-> Absent, token |-> "t1"],
                            [orgUrl |-> "u1", token |-> Absent],
                            [orgUrl |-> Absent, token |-> Absent] }

\* POST /auth without the return in front of res.status(400): the handler
\* goes on to connect and to answer again.
PostAuthFallingThrough ==
    /\ started
    /\ \E body \in BodyChoices :
         /\ connectAzureDevOps(body.orgUrl, body.token, "auth")
         /\ supplied' = TRUE
         /\ last' = IF body.orgUrl = Absent \/ body.token = Absent
                      THEN [route |-> "POST /auth", status |-> 400,
                            kind |-> "BadRequest",
                            fields |-> BodyFields("POST /auth", 400)]
                      ELSE NoResp
    /\ UNCHANGED <<started, cursorSettings, invokes>>

\* POST /auth
PostAuth ==
    /\ started
    /\ \E body \in BodyChoices :
         IF body.orgUrl = Absent \/ body.token = Absent
           THEN /\ last' = [route |-> "POST /auth", status |-> 400,
                            kind |-> "BadRequest",
                            fields |-> BodyFields("POST /auth", 400)]
                /\ UNCHANGED <<session, attempts, supplied>>
           ELSE /\ connectAzureDevOps(body.orgUrl, body.token, "auth")
                /\ supplied' = TRUE
                /\ last' = NoResp
    /\ UNCHANGED <<started, cursorSettings, invokes>>

\* POST /cursor-settings with the settings stored ahead of the test of
\* orgUrl and token.
PostCursorSettingsStoreFirst ==
    /\ started
    /\ \E body \in BodyChoices, project \in Projects \cup {Absent} :
         /\ cursorSettings' = [orgUrl |-> body.orgUrl,
                               project |-> project, token |-> body.token]
         /\ IF body.orgUrl = Absent \/ body.token = Absent
              THEN /\ last' = [route |-> "POST /cursor-settings", status |-> 400,
                               kind |-> "BadRequest",
                               fields |-> BodyFields("POST /cursor-settings", 400),
                               settings |-> [orgUrl |-> Absent, token |-> Absent]]
                   /\ UNCHANGED <<session, attempts, supplied>>
              ELSE /\ connectAzureDevOps(body.orgUrl, body.token, "cursor-settings")
                   /\ supplied' = TRUE
                   /\ last' = NoResp
    /\ UNCHANGED <<started, invokes>>

\* POST /cursor-settings
PostCursorSettings ==
    /\ started
    /\ \E body \in BodyChoices, project \in Projects \cup {Absent} :
         IF body.orgUrl = Absent \/ body.token = Absent
           THEN /\ last' = [route |-> "POST /cursor-settings", status |-> 400,
                            kind |-> "BadRequest",
                            fields |-> BodyFields("POST /cursor-settings", 400),
                            settings |-> [orgUrl |-> Absent, token |-> Absent]]
                /\ UNCHANGED <<session, attempts, supplied, cursorSettings>>
           ELSE /\ cursorSettings' = [orgUrl |-> body.orgUrl,
                                      project |-> project, token |-> body.token]
                /\ connectAzureDevOps(body.orgUrl, body.token, "cursor-settings")
                /\ supplied' = TRUE
                /\ last' = NoResp
    /\ UNCHANGED <<started, invokes>>

\* executeTool, case "connect_azure_devops".  obj is FALSE for arguments
\* that are undefined or not an object.  new azdev.WebApi(undefined, ...)
\* belongs to the client library: it either throws, which leaves
\* this.connection alone, or yields a connection whose handshake fails.
connectTool(transport, obj, args) ==
    IF ~obj
      THEN /\ last' = ToolEvent(transport, "connect_azure_devops", NoArgs,
                                "immediate", "InvalidArguments", {})
           /\ UNCHANGED <<session, attempts, supplied, cursorSettings>>
      ELSE /\ cursorSettings' = [orgUrl |-> args.orgUrl, token |-> args.token,
                                 project |-> cursorSettings.project]
           /\ supplied' = TRUE
           /\ \/ /\ connectAzureDevOps(args.orgUrl, args.token, transport)
                 /\ last' = ToolEvent(transport, "connect_azure_devops",
                              {"orgUrl" : x \in {args.orgUrl} \ {Absent}}
                                \cup {"token" : x \in {args.token} \ {Absent}},
                              "suspended", "pending", {})
              \/ /\ args.orgUrl = Absent
                 /\ last' = ConnectResponse(transport, args.orgUrl, args.token,
                                            "immediate", FALSE)
                 /\ UNCHANGED <<session, attempts>>

\* connect_azure_devops through the protocol handler and through
\* POST /tools/connect_azure_devops.
CallConnect ==
    /\ started
    /\ \E obj \in BOOLEAN, args \in BodyChoices : connectTool("mcp", obj, args)
    /\ UNCHANGED <<started, invokes>>

PostConnect ==
    /\ started
    /\ \E args \in BodyChoices : connectTool("http", TRUE, args)
    /\ UNCHANGED <<started, invokes>>

\* The same, called with both orgUrl and token as the catalog requires.
CallConnectComplete ==
    /\ started
    /\ \E args \in Creds : connectTool("mcp", TRUE, args)
    /\ UNCHANGED <<started, invokes>>

\* ------------------------------------------------------------ read-only
HealthBody(settings, conn) ==
    [status |-> "healthy", service |-> "azure-devops-mcp-server",
     cursorSettings |-> settings, connected |-> conn # 0]

\* GET /health answered only once every invocation has been answered.
GetHealthWhenIdle ==
    /\ started
    /\ invokes = {}
    /\ last' = [route |-> "GET /health", status |-> 200,
                body |-> HealthBody(cursorSettings, connection)]
    /\ UNCHANGED <<started, session, cursorSettings, attempts, invokes, supplied>>

\* GET /health
GetHealth ==
    /\ started
    /\ last' = [route |-> "GET /health", status |-> 200,
                body |-> HealthBody(cursorSettings, connection)]
    /\ UNCHANGED <<started, session, cursorSettings, attempts, invokes, supplied>>

SettingsBody(settings, conn) ==
    [settings |-> settings, connected |-> conn # 0]

\* GET /cursor-settings
GetCursorSettings ==
    /\ started
    /\ last' = [route |-> "GET /cursor-settings", status |-> 200,
                body |-> SettingsBody(cursorSettings, connection)]
    /\ UNCHANGED <<started, session, cursorSettings, attempts, invokes, supplied>>

\* A catalog that lists the session tools only once a connection exists.
ListToolsOfSession ==
    /\ started
    /\ last' = [route |-> "ListTools",
                tools |-> IF connection = 0 THEN <<"connect_azure_devops">>
                          ELSE ToolNames,
                required |-> [i \in 1..Len(ToolNames) |-> Required(ToolNames[i])]]
    /\ UNCHANGED <<started, session, cursorSettings, attempts, invokes, supplied>>

\* The ListTools handler of the protocol server: the fixed catalog.
ListTools ==
    /\ started
    /\ last' = [route |-> "ListTools", tools |-> ToolNames,
                required |-> [i \in 1..Len(ToolNames) |-> Required(ToolNames[i])]]
    /\ UNCHANGED <<started, session, cursorSettings, attempts, invokes, supplied>>

\* The pending call returns the array that the handler renders as
\*   `<heading>:\n${items.map(...).join('\n')}`
ReturnsList(t) ==
    \/ t.pc = "getProjects"
    \/ t.pc = "call" /\ t.tool \in {"list_build_definitions", "list_repositories"}

\* A handler that gives up the session when its backend call fails.
toolStepDroppingSession(t, ok, matched) ==
    /\ invokes' = invokes \ {t}
    /\ last' = ToolEvent(t.transport, t.tool, t.args, "resumed",
                         IF ok THEN "ok" ELSE "BackendError", t.ops)
    /\ IF ok THEN UNCHANGED session
       ELSE connection' = 0 /\ buildApi' = 0 /\ gitApi' = 0 /\ workItemApi' = 0
    /\ UNCHANGED <<started, cursorSettings, attempts, supplied>>

\* A suspended handler resumes from its backend call.  listProjects calls
\* getProjects on the core client it obtained; listWorkItems, when the
\* query matched, calls getWorkItems on this.workItemApi read anew.  matched
\* tells whether the backend returned any item.
toolStep(t, ok, matched) ==
    LET finish(kind) ==
          /\ invokes' = invokes \ {t}
          /\ last' = ToolEvent(t.transport, t.tool, t.args, "resumed",
                               kind, t.ops)
        continue(pc, on) ==
          /\ invokes' = (invokes \ {t}) \cup
               {[t EXCEPT !.pc = pc, !.on = on, !.ops = t.ops \cup {on}]}
          /\ last' = NoResp
    IN
    /\ IF ~ok THEN finish("BackendError")
       ELSE IF t.pc = "getCoreApi" THEN continue("getProjects", t.on)
       ELSE IF t.pc = "queryByWiql"
         THEN IF matched THEN continue("getWorkItems", workItemApi)
              ELSE finish("NoResults")
       ELSE IF ReturnsList(t) /\ ~matched THEN finish("BareHeader")
       ELSE finish("ok")
    /\ UNCHANGED <<started, session, cursorSettings, attempts, supplied>>

\* The backend answers the pending call of a tool: it succeeds exactly when
\* the client it was issued on carries an accepted credential.
ToolResume ==
    \E t \in invokes :
    \E matched \in (IF t.pc = "queryByWiql" \/ ReturnsList(t)
                       THEN BOOLEAN ELSE {TRUE}) :
        toolStep(t, Accepts(attempts[t.on]), matched)

\* The pending call of a tool fails for a reason other than the credential.
ToolFault ==
    \E t \in invokes :
        /\ Accepts(attempts[t.on])
        /\ toolStep(t, FALSE, FALSE)

\* The session under concurrent credential updates and backend faults;
\* tools are invoked as the catalog describes them.
Next ==
    \/ Start
    \/ PostAuth
    \/ PostCursorSettings
    \/ CallConnectComplete
    \/ ConnectResume
    \/ ConnectFault
    \/ CallToolComplete
    \/ ToolResume
    \/ ToolFault
    \/ GetHealth

Spec == Init /\ [][Next]_vars

\* No request is being served: no handshake and no tool call is pending.
Idle == invokes = {} /\ \A i \in 1..Len(attempts) : ~InFlight(attempts[i])

\* The dispatcher under every tool name and argument shape, driven by a
\* client that awaits each answer before its next request, over a backend
\* that fails only calls made with a rejected credential; the session is
\* established by start() and by the connect tool.
NextDispatch ==
    \/ Start
    \/ Idle /\ CallConnect
    \/ Idle /\ PostConnect
    \/ ConnectResume
    \/ Idle /\ CallTool
    \/ Idle /\ PostTool
    \/ ToolResume
    \/ Idle /\ GetHealth
    \/ Idle /\ GetCursorSettings
    \/ Idle /\ ListTools

SpecDispatch == Init /\ [][NextDispatch]_vars

\* No handshake is pending.
NoHandshake == \A i \in 1..Len(attempts) : ~InFlight(attempts[i])

\* The multi-client server with invocations from several clients pending at
\* once on a backend that may leave a call unanswered for ever; the
\* credential is updated while no handshake is pending.
NextServing ==
    \/ Start
    \/ NoHandshake /\ PostAuth
    \/ ConnectResume
    \/ CallToolComplete
    \/ ToolResume
    \/ GetHealth

SpecServing == Init /\ [][NextServing]_vars

\* The credential of the multi-client server under concurrent updates
\* through POST /auth and POST /cursor-settings, with the two probes; the
\* backend answers every call, and fails those made with a rejected
\* credential.
NextCredentials ==
    \/ Start
    \/ PostAuth
    \/ PostCursorSettings
    \/ ConnectResume
    \/ GetHealth
    \/ GetCursorSettings

SpecCredentials == Init /\ [][NextCredentials]_vars

\* The HTTP routes that take requests with a body, driven by a client that
\* awaits each answer before its next request.
NextHttp ==
    \/ Start
    \/ Idle /\ PostAuth
    \/ Idle /\ PostCursorSettings
    \/ Idle /\ PostConnect
    \/ ConnectResume
    \/ Idle /\ PostToolComplete
    \/ ToolResume

\* Every backend call that is pending completes.
SpecHttp ==
    Init /\ [][NextHttp]_vars /\ WF_vars(ConnectResume) /\ WF_vars(ToolResume)

\* ------------------------------------------------ the single-peer servers
\* src/src/index.ts holds two mains over the stdio transport.  The first
\* serves the handlers of AzureDevOpsServer (src/unnamed/part_001), whose
\* CallTool handler and tool methods are those modelled above.  The second
\* reads the credential from the environment and serves the configured
\* AzureDevOpsMCPServer of src/unnamed/part_000, whose fields are the four
\* of the session handle and this.config, kept here in cursorSettings.  The
\* protocol server hands every request to its handler as it arrives.

\* getTools(): the names of the configured server's catalog, in its order.
getTools == << "list_projects", "list_work_items", "create_work_item",
               "list_builds", "list_repositories" >>

\* The switch of handleToolCall without the case of list_builds.
ConfiguredToolsWithoutBuilds ==
    {"list_projects", "list_work_items", "create_work_item",
     "list_repositories"}

\* The case labels of the switch of handleToolCall.
ConfiguredTools == {"list_projects", "list_work_items", "create_work_item",
                    "list_builds", "list_repositories"}

\* inputSchema.required of getTools().
ConfiguredRequired(tool) ==
    CASE tool = "list_projects"    -> {}
      [] tool = "create_work_item" -> {"project", "type", "title"}
      [] OTHER                     -> {"project"}

ConfiguredArgChoices(tool) ==
    {NoArgs, ConfiguredRequired(tool), ConfiguredRequired(tool) \cup {"extra"}, {}}
      \cup { ConfiguredRequired(tool) \ {k} : k \in ConfiguredRequired(tool) }
      \cup (IF tool = "create_work_item"
              THEN {ConfiguredRequired(tool) \cup {"description"}} ELSE {})
      \cup (IF tool = "list_work_items"
              THEN {ConfiguredRequired(tool) \cup {"query"}} ELSE {})

\* The field each method of the configured server tests and then calls.
ConfiguredHandle(tool) ==
    CASE tool = "list_projects"     -> connection
      [] tool = "list_builds"       -> buildApi
      [] tool = "list_repositories" -> gitApi
      [] OTHER                      -> workItemApi

\* createWorkItem with the description added whether or not it was given.
PatchDocumentWithDescription(args) ==
    {"/fields/System.Title", "/fields/System.Description"}

\* createWorkItem: the paths of the JSON-patch document sent to the backend.
PatchDocument(args) ==
    {"/fields/System.Title"}
      \cup (IF "description" \in args THEN {"/fields/System.Description"} ELSE {})

\* The keys of the objects the methods of the configured server return.
ResultFields(tool) ==
    CASE tool = "create_work_item"  -> {"id", "title", "type", "url"}
      [] tool = "list_projects"     -> {"id", "name", "description", "url"}
      [] tool = "list_work_items"   -> {"id", "title", "state", "type", "url"}
      [] tool = "list_builds"       -> {"id", "buildNumber", "status", "result",
                                        "startTime", "finishTime"}
      [] OTHER                      -> {"id", "name", "url", "defaultBranch", "size"}

\* What the CallTool handler of the second main answers: the result as
\* JSON text, or in its catch the message with isError: true.
StdioEvent(tool, args, phase, kind, ops, names) ==
    [route |-> "tool", transport |-> "stdio", tool |-> tool, args |-> args,
     phase |-> phase, kind |-> kind, ops |-> ops,
     names |-> names, caught |-> IsError(kind),
     status |-> 0, shape |-> "content", isError |-> IsError(kind),
     content |-> IF kind = "ok" THEN ResultFields(tool) ELSE {}]

\* const project = args.project || this.config.project; if (!project) throw
HasProject(args) == "project" \in args \/ cursorSettings.project # Absent

\* The default project preferred to the argument.
ProjectOfDefaultFirst(args) ==
    IF cursorSettings.project # Absent THEN cursorSettings.project
    ELSE "args.project"

\* args.project || this.config.project: the project the method is called
\* with, the value of the argument or the configured default.
ProjectOf(args) ==
    IF "project" \in args THEN "args.project" ELSE cursorSettings.project

\* handleToolCall up to its first await.
handleToolCall(tool, args) ==
    LET throw(kind, names) ==
          /\ last' = StdioEvent(tool, args, "immediate", kind, {}, names)
          /\ UNCHANGED invokes
        h == ConfiguredHandle(tool)
    IN
    /\ IF tool \notin ConfiguredTools THEN throw("UnknownTool", {})
       ELSE IF tool # "list_projects" /\ args = NoArgs
         THEN throw("InvalidArguments", {})
       ELSE IF tool \notin {"list_projects", "create_work_item"} /\ ~HasProject(args)
         THEN throw("InvalidArguments", {"project"})
       ELSE IF tool = "create_work_item" /\ ~({"project", "type", "title"} \subseteq args)
         THEN throw("InvalidArguments", {"project", "type", "title"})
       ELSE IF h = 0
         THEN throw(IF tool = "list_projects" THEN "NotConnected"
                    ELSE "ApiUnavailable", {})
       ELSE /\ FreeIds # {}
            /\ invokes' = invokes \cup
                 {[id |-> CHOOSE i \in FreeIds : \A j \in FreeIds : i <= j,
                   transport |-> "stdio", tool |-> tool, args |-> args,
                   pc |-> IF tool = "list_projects" THEN "getCoreApi"
                          ELSE IF tool = "list_work_items" THEN "queryByWiql"
                          ELSE "call",
                   on |-> h, ops |-> {h},
                   doc |-> IF tool = "create_work_item" THEN PatchDocument(args)
                           ELSE {},
                   project |-> ProjectOf(args)]}
            /\ last' = StdioEvent(tool, args, "suspended", "pending", {h}, {})
    /\ UNCHANGED <<started, session, cursorSettings, attempts, supplied>>

\* The server is the configured one: its connection was set up by
\* initializeConnection from this.config.
Configured ==
    /\ Len(attempts) > 0
    /\ attempts[1].source = "config"

\* The CallTool handler of the second main, called with a name of the
\* catalog or with another name.
HandleToolCall ==
    /\ started
    /\ Configured
    /\ \E tool \in { getTools[i] : i \in 1..Len(getTools) } \cup {"no_such_tool"} :
       \E args \in ConfiguredArgChoices(tool) :
         handleToolCall(tool, args)

\* The ListTools handler of the second main: tools: azureDevOpsServer.getTools()
ListConfiguredTools ==
    /\ started
    /\ Configured
    /\ last' = [route |-> "ListTools", tools |-> getTools,
                required |-> [i \in 1..Len(getTools) |->
                                ConfiguredRequired(getTools[i])]]
    /\ UNCHANGED <<started, session, cursorSettings, attempts, invokes, supplied>>

\* initializeConnection up to its first await; the constructor does not
\* await it, and its catch only logs.
initializeConnection(url, tok) == connectAzureDevOps(url, tok, "initialize")

\* The second main: exit(1) unless AZURE_DEVOPS_ORG_URL and AZURE_DEVOPS_PAT
\* are set; otherwise construct the server, register the handlers and
\* connect the transport.
MainConfigured ==
    /\ ~started
    /\ last = NoResp
    /\ \E env \in EnvChoices, project \in Projects \cup {Absent} :
         IF env.orgUrl = Absent \/ env.token = Absent
           THEN /\ last' = [route |-> "exit", code |-> 1]
                /\ UNCHANGED <<started, session, cursorSettings, attempts, supplied>>
           ELSE /\ cursorSettings' = [orgUrl |-> env.orgUrl, project |-> project,
                                      token |-> env.token]
                /\ initializeConnection(env.orgUrl, env.token)
                /\ supplied' = TRUE
                /\ started' = TRUE
                /\ last' = NoResp
    /\ UNCHANGED invokes

\* The first main: register the handlers and connect the transport.
MainPlain ==
    /\ ~started
    /\ last = NoResp
    /\ started' = TRUE
    /\ UNCHANGED <<session, cursorSettings, attempts, invokes, last, supplied>>

\* A suspended method of the configured server resumes from its backend
\* call; the handler returns the array or object it gets.
stdioStep(t, ok, matched) ==
    LET finish(kind) ==
          /\ invokes' = invokes \ {t}
          /\ last' = StdioEvent(t.tool, t.args, "resumed", kind, t.ops, {})
        continue(pc, on) ==
          /\ invokes' = (invokes \ {t}) \cup
               {[t EXCEPT !.pc = pc, !.on = on, !.ops = t.ops \cup {on}]}
          /\ last' = NoResp
    IN
    /\ IF ~ok THEN finish("BackendError")
       ELSE IF t.pc = "getCoreApi" THEN continue("getProjects", t.on)
       ELSE IF t.pc = "queryByWiql"
         THEN IF matched THEN continue("getWorkItems", workItemApi)
              ELSE finish("EmptyList")
       ELSE IF t.tool # "create_work_item" /\ ~matched THEN finish("EmptyList")
       ELSE finish("ok")
    /\ UNCHANGED <<started, session, cursorSettings, attempts, supplied>>

StdioResume ==
    \E t \in invokes :
    \E matched \in (IF t.tool = "create_work_item" \/ t.pc = "getCoreApi"
                      THEN {TRUE} ELSE BOOLEAN) :
        stdioStep(t, Accepts(attempts[t.on]), matched)

\* The two single-peer servers: whichever main runs, then the requests of
\* its peer.  Without a configured credential the handlers are those of
\* AzureDevOpsServer.
NextStdio ==
    \/ MainPlain
    \/ MainConfigured
    \/ ConnectResume
    \/ ~supplied /\ CallTool
    \/ HandleToolCall
    \/ StdioResume

SpecStdio == Init /\ [][NextStdio]_vars

\* The catalog and the dispatcher of each server: the multi-client server
\* after start(), the first main with the handlers of AzureDevOpsServer, and
\* the second main with the configured server.  The client lists the tools
\* and calls names of the catalog and other names, one request at a time.
NextCatalog ==
    \/ Start
    \/ MainPlain
    \/ MainConfigured
    \/ ConnectResume
    \/ ~Configured /\ Idle /\ ListTools
    \/ ~Configured /\ Idle /\ CallConnect
    \/ ~Configured /\ Idle /\ CallTool
    \/ ~Configured /\ ToolResume
    \/ Idle /\ ListConfiguredTools
    \/ Idle /\ HandleToolCall
    \/ Configured /\ StdioResume

SpecCatalog == Init /\ [][NextCatalog]_vars

\* -------------------------------------------------- the interactive setup
\* InteractiveStarter.start().  process.env is what dotenv.config() loaded
\* when the module was imported.  With a .env file that the user chooses to
\* use, the server is started at once.  Otherwise the user enters a
\* configuration and confirms it or not, testConnection tries the entered
\* credential on a WebApi of its own, saveToEnvFile writes the .env file
\* when asked to, and new AzureDevOpsMCPServer(config.port).start() runs: the
\* port is all the server is given, and its start() reads process.env.
InteractiveStart ==
    /\ ~started
    /\ \E env \in EnvChoices, useEnvFile \in BOOLEAN, entered \in Creds,
          confirmed \in BOOLEAN, save \in BOOLEAN :
         LET setup(outcome) ==
               [route |-> "setup", outcome |-> outcome,
                entered |-> IF useEnvFile THEN [orgUrl |-> Absent, token |-> Absent]
                            ELSE entered,
                saved |-> save /\ outcome = "started" /\ ~useEnvFile]
             serverStart ==
               /\ started' = TRUE
               /\ IF env.orgUrl # Absent /\ env.token # Absent
                    THEN /\ connectAzureDevOps(env.orgUrl, env.token, "startup")
                         /\ supplied' = TRUE
                    ELSE UNCHANGED <<session, attempts, supplied>>
         IN
         IF useEnvFile
           THEN /\ env.orgUrl # Absent
                /\ serverStart
                /\ last' = setup("env-file")
         ELSE IF ~confirmed
           THEN /\ last' = setup("cancelled")
                /\ UNCHANGED <<started, session, attempts, supplied>>
         ELSE IF ~Accepts(entered)
           THEN /\ last' = setup("test-failed")
                /\ UNCHANGED <<started, session, attempts, supplied>>
         ELSE /\ serverStart
              /\ last' = setup("started")
    /\ UNCHANGED <<cursorSettings, invokes>>

\* The server as the interactive setup starts it, then used by clients.
NextInteractive ==
    \/ InteractiveStart
    \/ ConnectResume
    \/ GetHealth
    \/ CallToolComplete
    \/ ToolResume

SpecInteractive == Init /\ [][NextInteractive]_vars

\* ---------------------------------------------------- claim vocabulary
\* The credential a WebApi object (and every client fetched from it) was
\* built from.
CredOf(c) == [orgUrl |-> attempts[c].orgUrl, token |-> attempts[c].token]

\* The four fields of the session handle that are set.
HandleFields == {connection, buildApi, gitApi, workItemApi} \ {0}

Pending == { i \in 1..Len(attempts) : InFlight(attempts[i]) }

\* No handshake has succeeded so far.
NoSession == \A i \in 1..Len(attempts) : attempts[i].pc # "ok"

\* The last step answered or took up the invocation of a tool.
ToolStep == last.route = "tool"

\* ------------------------------------------------------------------ C1
\* C1: while no session exists, the concurrent callers of connect that
\* carry the same credential are all served by one handshake: no two
\* WebApi connections are being set up for them at the same time.
C1_SingleFlight ==
    NoSession =>
        \A i, j \in Pending : CredOf(i) = CredOf(j) => i = j

\* ------------------------------------------------------------------ C2
\* C2: in every state the fields of the session handle that are set
\* (connection, build, git and work-item client) derive from one and the
\* same credential.
C2_NoMixedHandle ==
    \A f, g \in HandleFields : CredOf(f) = CredOf(g)

\* ------------------------------------------------------------------ C3
\* C3: once a connect attempt has completed successfully, no field of the
\* session handle holds a connection or client that was built by an
\* earlier attempt from another credential.
C3_NoStaleClientAfterReplacement ==
    \A r \in 1..Len(attempts) :
        attempts[r].pc = "ok" =>
            \A f \in HandleFields : f < r => CredOf(f) = CredOf(r)

\* ------------------------------------------------------------------ C4
\* C4: all backend operations of one tool invocation are issued on one
\* session: the invocations in flight and the one just answered have used
\* the connection or client of a single WebApi object.
C4_OneHandlePerInvocation ==
    /\ \A t \in invokes : Cardinality(t.ops) <= 1
    /\ ToolStep => Cardinality(last.ops) <= 1

\* ------------------------------------------------------------------ C5
\* ... of a session-requiring tool whose arguments carry every required
\* parameter, at a time when no credential has been supplied.
WellFormedBeforeCredential ==
    /\ ToolStep
    /\ ~supplied
    /\ last.tool \in SessionTools
    /\ last.args # NoArgs
    /\ Missing(last.tool, last.args) = {}

\* C5: a session-requiring tool invoked before any credential has been
\* supplied is answered at once with the NotConnected error; the handler
\* fails in no other way, the server stays up, and no backend operation is
\* issued or left pending.
C5_NotConnectedBeforeCredential ==
    WellFormedBeforeCredential =>
        /\ last.phase = "immediate"
        /\ last.kind = "NotConnected"
        /\ last.ops = {}
        /\ invokes = {}
        /\ started

C5_Witness ==
    /\ WellFormedBeforeCredential
    /\ last.tool = "create_work_item"
    /\ last.transport = "http"
    /\ last.kind = "NotConnected"

\* ------------------------------------------------------------------ C6
\* C6: an invocation of a catalog tool whose argument object omits a
\* required parameter is rejected at once with InvalidArguments, and the
\* error names every omitted parameter.
C6_MissingParameterRejected ==
    (/\ ToolStep
     /\ last.tool \in Catalog
     /\ last.args # NoArgs
     /\ Missing(last.tool, last.args) # {})
    => /\ last.phase = "immediate"
       /\ last.kind = "InvalidArguments"
       /\ Missing(last.tool, last.args) \subseteq last.names

\* ------------------------------------------------------------------ C7
\* The arguments of the invocation are absent, not an object, or lack a
\* required parameter.
InvalidArgs(e) == e.args = NoArgs \/ Missing(e.tool, e.args) # {}

\* C7: a step that takes up an invocation with invalid arguments answers it
\* at once, issues no backend call (no handshake, no tool operation) and
\* leaves the session handle and the stored settings as they were.
C7_ValidationBeforeSideEffects ==
    [][ (/\ last'.route = "tool"
         /\ last'.tool \in Catalog
         /\ last'.phase \in {"immediate", "suspended"}
         /\ InvalidArgs(last'))
        => /\ last'.phase = "immediate"
           /\ UNCHANGED <<session, cursorSettings, attempts, invokes>> ]_vars

\* ------------------------------------------------------------------ C8
\* C8: what GET /health and GET /cursor-settings return does not depend on
\* the stored token: when a token is stored, the body sent is the one that
\* would be sent with any other token stored in its place.
C8_ProbesHideToken ==
    cursorSettings.token \in Tokens =>
      /\ last.route = "GET /health" =>
           \A t \in Tokens :
             last.body = HealthBody([cursorSettings EXCEPT !.token = t], connection)
      /\ last.route = "GET /cursor-settings" =>
           \A t \in Tokens :
             last.body = SettingsBody([cursorSettings EXCEPT !.token = t], connection)

\* ------------------------------------------------------------------ C9
\* The session is Connected: the most recent handshake attempt has
\* completed successfully.
Connected ==
    /\ Len(attempts) > 0
    /\ attempts[Len(attempts)].pc = "ok"

\* C9: the health probe reports connected only in the Connected state.
C9_ConnectedOnlyWhenConnected ==
    (last.route = "GET /health" /\ last.body.connected) => Connected

\* ----------------------------------------------------------------- C10
\* C10: after a handshake attempt has failed, its connection is not the
\* stored one, and no session-requiring tool is started on a connection or
\* client of a failed attempt.
C10_NoHandleFromFailedHandshake ==
    /\ \A i \in 1..Len(attempts) :
         attempts[i].pc = "failed" => connection # i
    /\ (ToolStep /\ last.phase = "suspended" /\ last.tool \in SessionTools)
         => \A c \in last.ops : attempts[c].pc # "failed"

\* ----------------------------------------------------------------- C11
\* The session is Failed: the most recent handshake attempt has failed.
Failed ==
    /\ Len(attempts) > 0
    /\ attempts[Len(attempts)].pc = "failed"

\* The step takes up the invocation of a session-requiring tool.
TakesUp(e) ==
    /\ e.route = "tool"
    /\ e.phase \in {"immediate", "suspended"}
    /\ e.tool \in SessionTools

\* C11: in the Failed state the next call that needs the session, the
\* invocation of a session-requiring tool with valid arguments, starts a
\* fresh handshake attempt.
C11_NextCallReattempts ==
    [][ (/\ Failed
         /\ Len(attempts) < MaxConnects
         /\ TakesUp(last')
         /\ ~InvalidArgs(last'))
        => Len(attempts') = Len(attempts) + 1 ]_vars

\* ----------------------------------------------------------------- C12
\* The last step answered the invocation of a tool.
Answered == ToolStep /\ last.phase \in {"immediate", "resumed"}

\* C12: the answer to an invocation carries the error flag exactly when the
\* invocation failed.
C12_ErrorFlagOnFailure ==
    Answered => (last.isError <=> IsError(last.kind))

\* ----------------------------------------------------------------- C13
\* C13: every answer to an invocation, on both transports, has the
\* envelope shape { content: [ { type: "text", text } ], isError? }.
C13_EnvelopeShape ==
    Answered => last.shape = "content"

\* ----------------------------------------------------------------- C14
\* C14: no invocation ends with executeTool throwing or rejecting to the
\* transport that called it.
C14_NoFailureEscapes ==
    Answered => ~last.caught

\* ----------------------------------------------------------------- C15
\* The name is not one of the names the catalog lists.
UnknownName(tool) == \A i \in 1..Len(ToolNames) : ToolNames[i] # tool

\* C15: a step that takes up the invocation of a name the catalog does not
\* list answers it at once with the UnknownTool error, issues no backend
\* operation and leaves the session handle, the handshakes and the stored
\* settings as they were, whatever the session state.
C15_UnknownToolRejected ==
    [][ (/\ last'.route = "tool"
         /\ last'.phase \in {"immediate", "suspended"}
         /\ UnknownName(last'.tool))
        => /\ last'.phase = "immediate"
           /\ last'.kind = "UnknownTool"
           /\ last'.ops = {}
           /\ UNCHANGED <<session, cursorSettings, attempts, invokes>> ]_vars

C15_Witness ==
    /\ ToolStep
    /\ UnknownName(last.tool)
    /\ last.kind = "UnknownTool"
    /\ last.transport = "http"
    /\ Len(attempts) > 0
    /\ attempts[Len(attempts)].pc = "ok"

\* ----------------------------------------------------------------- C16
\* C16: when an invocation of a catalog tool that omits required
\* parameters has been answered, the parameter names in the answer are
\* exactly the required parameters its arguments leave out.
C16_AllMissingReported ==
    (/\ Answered
     /\ last.tool \in Catalog
     /\ last.args # NoArgs
     /\ Missing(last.tool, last.args) # {})
    => last.names = Missing(last.tool, last.args)

\* ----------------------------------------------------------------- C17
\* The event of an invocation made without the unknown key.
NoExtra(e) == [e EXCEPT !.args = @ \ {"extra"}]

\* C17: a session-requiring tool invoked with every required parameter and
\* an unknown extra key is not refused for its arguments, and the step
\* leaves what the same invocation without the extra key leaves in the
\* same state: the same error, or the same backend call pending on the
\* same handle.
C17_ExtraKeysIgnored ==
    [][ (/\ TakesUp(last')
         /\ "extra" \in last'.args
         /\ Missing(last'.tool, last'.args) = {})
        => /\ last'.kind # "InvalidArguments"
           /\ NoExtra(last') = takeUp(last'.transport, last'.tool,
                                      last'.args \ {"extra"})
           /\ \A t \in invokes' \ invokes :
                /\ t.pc = FirstOp(t.tool)
                /\ t.ops = last'.ops ]_vars

C17_Witness ==
    /\ ToolStep
    /\ "extra" \in last.args
    /\ last.phase = "resumed"
    /\ last.kind = "ok"
    /\ last.tool = "get_build"

\* ----------------------------------------------------------------- C18
\* C18: once the handshake of an explicitly supplied credential has
\* completed, no step stores in the session handle a client of the
\* connection that start() built from the environment variables.
C18_ExplicitCredentialPrevails ==
    [][ \A r \in 2..Len(attempts) :
          (/\ attempts[1].source = "env"
           /\ attempts[r].pc = "ok"
           /\ CredOf(r) # CredOf(1))
          => /\ buildApi' # buildApi => buildApi' # 1
             /\ gitApi' # gitApi => gitApi' # 1
             /\ workItemApi' # workItemApi => workItemApi' # 1
             /\ connection' # connection => connection' # 1 ]_vars

StartupFailed ==
    /\ Len(attempts) > 0
    /\ attempts[1].source = "env"
    /\ attempts[1].pc = "failed"

C23_OnlyCredentialsStartHandshake ==
    [][ /\ TakesUp(last') => attempts' = attempts /\ UNCHANGED session
        /\ (TakesUp(last') /\ Connected /\ last'.args # NoArgs)
             => /\ last'.phase = "suspended"
                /\ last'.ops = {Handle(last'.tool)}
        /\ Len(attempts') > Len(attempts)
             => \/ started' # started
                \/ attempts'[Len(attempts')].caller \in {"auth", "cursor-settings"}
                \/ /\ last'.route = "tool"
                   /\ last'.tool = "connect_azure_devops" ]_vars

C23_Witness ==
    /\ ToolStep
    /\ last.tool = "list_projects"
    /\ last.transport = "mcp"
    /\ last.phase = "suspended"
    /\ Connected
    /\ Len(attempts) = 1
    /\ last.ops = {1}

\* ----------------------------------------------------------------- C24
\* C24: a step that accepts a credential from a request and starts its
\* handshake leaves as stored credential exactly what the request
\* supplied: its URL and token, and no default project unless the request
\* (POST /cursor-settings) carried one.
C24_ReplacementNotMerge ==
    [][ Len(attempts') > Len(attempts) =>
          LET a == attempts'[Len(attempts')] IN
          a.source = "request" =>
            /\ cursorSettings'.orgUrl = a.orgUrl
            /\ cursorSettings'.token = a.token
            /\ a.caller # "cursor-settings" => cursorSettings'.project = Absent
      ]_vars

\* ----------------------------------------------------------------- C25
\* C25: every catalog query, in whatever session state and after whatever
\* connects and invocations, returns the same descriptors in the same
\* order: the names of the catalog with their required parameters.
C25_CatalogDeterministic ==
    last.route = "ListTools" =>
        /\ last.tools = ToolNames
        /\ last.required = [i \in 1..Len(ToolNames) |-> Required(ToolNames[i])]

C25_Witness ==
    /\ last.route = "ListTools"
    /\ last.tools = ToolNames
    /\ Len(attempts) >= 2
    /\ Connected
    /\ CredOf(1) # CredOf(2)

\* ----------------------------------------------------------------- C27
\* C27: no query tool answers an empty backend result with the bare
\* heading of a list.
C27_NoResultsIsDistinct ==
    ToolStep => last.kind # "BareHeader"

\* ----------------------------------------------------------------- C30
\* C30: when no handshake is in flight and the health probe reports
\* connected, the orgUrl in the settings it shows is the URL of the
\* connection the session holds.
C30_HealthEndpointIsSessionEndpoint ==
    (/\ last.route = "GET /health"
     /\ last.body.connected
     /\ Pending = {})
    => last.body.cursorSettings.orgUrl = attempts[connection].orgUrl

\* ----------------------------------------------------------------- C21
\* C21: a single-peer server accepts requests only with the organization
\* URL and the token present in its configuration: without them the
\* process has exited before it serves.
C21_StdioFailsFast ==
    started => /\ cursorSettings.orgUrl # Absent
               /\ cursorSettings.token # Absent

\* ----------------------------------------------------------------- C22
\* C22: a single-peer server takes up a request only when every earlier
\* invocation has been answered.
C22_StrictRequestOrder ==
    [][ (/\ last'.route = "tool"
         /\ last'.phase \in {"immediate", "suspended"})
        => invokes = {} ]_vars

\* ----------------------------------------------------------------- C26
\* The arguments {project, type, title} of the configured server's
\* create_work_item.
TaskWithoutDescription == {"project", "type", "title"}

C28_WaitsForInFlightConnect ==
    (/\ ToolStep
     /\ last.phase = "immediate"
     /\ last.kind \in {"NotConnected", "ApiUnavailable"})
    => Pending = {}

C31_SettingsResponseHidesToken ==
    last.route = "POST /cursor-settings" =>
        /\ last.settings.token \notin Tokens
        /\ last.status = 200 =>
             /\ last.fields = {"success", "message", "settings"}
             /\ last.settings.token = "***"
        /\ last.status # 200 =>
             /\ last.fields \subseteq {"error", "details"}
             /\ "error" \in last.fields
             /\ last.settings.token = Absent

C31_Witness ==
    /\ last.route = "POST /cursor-settings"
    /\ last.status = 200
    /\ cursorSettings.token \in Tokens
    /\ last.settings.orgUrl = cursorSettings.orgUrl
    /\ last.settings.token = "***"

\* ----------------------------------------------------------------- C32
\* The tools of the configured server that fall back on the default project.
DefaultProjectTools == {"list_work_items", "list_builds", "list_repositories"}

Refused(e) ==
    /\ e.route \in {"POST /auth", "POST /cursor-settings"}
    /\ e.status = 400

\* C33: a credential update is answered 400 without a handshake being
\* started and with the session handle, the stored settings and the
\* connected flag of the probes left as they were; and the handshake that
\* a credential update starts carries both an orgUrl and a token.
C33_IncompleteUpdateRefused ==
    [][ /\ Refused(last') =>
             /\ attempts' = attempts
             /\ UNCHANGED <<session, cursorSettings>>
             /\ HealthBody(cursorSettings', connection').connected
                  = HealthBody(cursorSettings, connection).connected
             /\ SettingsBody(cursorSettings', connection')
                  = SettingsBody(cursorSettings, connection)
        /\ Len(attempts') > Len(attempts) =>
             LET a == attempts'[Len(attempts')] IN
             a.caller \in {"auth", "cursor-settings"} =>
               /\ a.orgUrl # Absent
               /\ a.token # Absent ]_vars

C33_Witness ==
    /\ Refused(last)
    /\ last.route = "POST /cursor-settings"
    /\ Connected
    /\ connection = Len(attempts)
    /\ cursorSettings.orgUrl = attempts[connection].orgUrl

\* ----------------------------------------------------------------- C34
\* C34: every step of a tool other than connect_azure_devops, the one that
\* takes the invocation up and each one that resumes it, whether it ends in
\* a result or in an error, leaves the connection, the build, git and
\* work-item clients, the stored settings and the handshakes as they were.
C34_ToolsLeaveSessionAlone ==
    [][ (\/ last'.route = "tool" /\ last'.tool # "connect_azure_devops"
         \/ invokes' # invokes)
        => /\ UNCHANGED <<connection, buildApi, gitApi, workItemApi>>
           /\ UNCHANGED cursorSettings
           /\ attempts' = attempts ]_vars

C34_Witness ==
    /\ ToolStep
    /\ last.tool = "list_projects"
    /\ last.phase = "resumed"
    /\ last.kind = "BackendError"
    /\ connection = 2
    /\ buildApi = 1

\* ----------------------------------------------------------------- C35
\* The names the catalog of the server lists.
Listed ==
    IF Configured THEN { getTools[i] : i \in 1..Len(getTools) }
    ELSE { ToolNames[i] : i \in 1..Len(ToolNames) }

\* The names the dispatcher of the server has a case for.
Routed == IF Configured THEN ConfiguredTools ELSE Catalog

\* C35: in each server the names of the catalog listing are the names the
\* dispatcher routes: a listing holds only names with a case in the
\* dispatcher, an invocation is answered 'Unknown tool' exactly when its
\* name is not listed, and every name with a case is listed.
C35_CatalogMatchesDispatcher ==
    /\ started => Routed \subseteq Listed
    /\ last.route = "ListTools" =>
         /\ { last.tools[i] : i \in 1..Len(last.tools) } = Listed
         /\ Listed \subseteq Routed
    /\ ToolStep => (last.kind = "UnknownTool" <=> last.tool \notin Listed)

C35_Witness ==
    /\ ToolStep
    /\ Configured
    /\ last.tool = "list_builds"
    /\ last.phase = "resumed"
    /\ last.kind = "ok"

\* ----------------------------------------------------------------- C36
\* The HTTP requests that have been taken up and not answered: those
\* awaiting connectAzureDevOps and those awaiting a tool.
Unanswered ==
    { <<"connect", i>> : i \in { j \in 1..Len(attempts) :
          attempts[j].caller \in {"auth", "cursor-settings", "http"} } }
      \cup { <<"tool", t.id>> : t \in { u \in invokes : u.transport = "http" } }

\* The step sends the response of POST /auth, POST /cursor-settings or
\* POST /tools/:toolName.
HttpAnswer(e) ==
    \/ e.route \in {"POST /auth", "POST /cursor-settings"}
    \/ /\ e.route = "tool"
       /\ e.transport = "http"
       /\ e.phase \in {"immediate", "resumed"}

\* C36: a request to POST /auth, POST /cursor-settings or
\* POST /tools/:toolName is answered once.  The step that sends a response
\* either takes a request up and answers it at once, leaving no request of
\* its own waiting, or answers exactly one waiting request; a request stops
\* waiting only in a step that sends a response; and, the backend calls
\* completing, the waiting request of the client is answered.
C36_ExactlyOneResponse ==
    /\ [][ /\ HttpAnswer(last') =>
                 \/ Unanswered' = Unanswered
                 \/ /\ Unanswered' \subseteq Unanswered
                    /\ Cardinality(Unanswered \ Unanswered') = 1
           /\ Unanswered' # Unanswered =>
                 \/ /\ ~HttpAnswer(last')
                    /\ Unanswered \subseteq Unanswered'
                    /\ Cardinality(Unanswered' \ Unanswered) = 1
                 \/ /\ HttpAnswer(last')
                    /\ Unanswered' \subseteq Unanswered ]_vars
    /\ (Unanswered # {}) ~> (Unanswered = {})

C36_Witness ==
    /\ last.route = "tool"
    /\ last.transport = "http"
    /\ last.tool = "list_work_items"
    /\ last.phase = "resumed"
    /\ last.kind = "ok"
    /\ Unanswered = {}
    /\ Len(attempts) = 2
    /\ attempts[1].pc = "failed"

\* ----------------------------------------------------------------- C37
\* C37: when the interactive setup has started the server with a
\* configuration that was confirmed and whose connection test succeeded,
\* the server holds a connection built from the organization URL and the
\* token that were entered, saved to the .env file or not.
C37_SetupConnectsWithEntered ==
    (last.route = "setup" /\ last.outcome = "started") =>
        /\ connection # 0
        /\ CredOf(connection) = last.entered

====
